---- MODULE Spec2Model ----
(***************************************************************************)
(* s3-parquet-to-postgres: the durable work-list scheduler                 *)
(* (src/src/work_lists.rs) driven by the orchestrator loop                 *)
(* (src/src/runner.rs run, src/src/main.rs main).                          *)
(*                                                                         *)
(* The three work-list files are modelled as they are on disk; the         *)
(* std::io::BufWriter buffers of mark_completed and next_batch are         *)
(* modelled as process memory that reaches the disk only when the writer   *)
(* is dropped.  Every file operation is one step, so that a crash can      *)
(* fall between any two of them.                                           *)
(***************************************************************************)
EXTENDS Integers, Sequences, FiniteSets, Bags, TLC

\* ------------------------------------------------------------------ bounds
\* lines of the initial todo file
MaxTodo == 2
\* lines of the initial wip file
MaxInitWip == 1
\* largest configured download_batch_size
MaxBatch == 2
\* process starts (the first run and the restarts after a crash or an abort)
MaxRuns == 2
\* file, fetch or load operations that fail in one behaviour
MaxFaults == 1
\* scheduler calls a direct caller makes after WorkLists::new
MaxCalls == 2
\* external edits of the wip file between the calls of a direct caller
MaxEdits == 1
\* keys requested in one call of s3_download::get
MaxKeys == 2
\* source fields requested in one call of Db::connect
MaxFields == 3
\* columns in one call of converters::build
MaxCols == 1
\* fields of one group of a parquet schema
MaxGroupFields == 2
\* fields requested in one call of get_desired_cols
MaxDesired == 2

\* ------------------------------------------------------------------ lines
\* A line is a tuple of characters.  Two item lines, one comment line with
\* leading whitespace and one blank (whitespace only) line.
ItemA == <<"a">>
ItemB == <<"b">>
CommentLine == <<" ", "#">>
BlankLine == <<" ">>
OldLine == <<"z">>
Lines == {ItemA, ItemB, CommentLine, BlankLine}
\* an item line with whitespace around the item
ItemPadded == <<" ", "b", " ">>
PaddedLines == {ItemA, ItemPadded, CommentLine, BlankLine}

IsWhitespace(c) == c = " "

RECURSIVE trim_start(_)
trim_start(l) ==
    IF l = <<>> THEN l
    ELSE IF IsWhitespace(Head(l)) THEN trim_start(Tail(l)) ELSE l

RECURSIVE trim_end(_)
trim_end(l) ==
    IF l = <<>> THEN l
    ELSE IF IsWhitespace(l[Len(l)]) THEN trim_end(SubSeq(l, 1, Len(l) - 1)) ELSE l

trim(l) == trim_end(trim_start(l))

\* (mutant of IsItemLine: the line is tested as it is, not trimmed)
IsItemLineUntrimmed(l) == l # <<>> /\ Head(l) # "#"

\* the filter_map closure of wip_file_to_wip_list and next_batch
IsItemLine(l) == trim(l) # <<>> /\ Head(trim_start(l)) # "#"

FilterLines(ls) == SelectSeq(ls, IsItemLine)

\* (mutant of Take: one line more than batch_size is taken)
TakeOneMore(s, n) == SubSeq(s, 1, IF n + 1 < Len(s) THEN n + 1 ELSE Len(s))

\* Iterator::take and the rest of the iterator
Take(s, n) == SubSeq(s, 1, IF n < Len(s) THEN n ELSE Len(s))

\* (mutant of Rest: the line after the batch is consumed and dropped)
RestDropsOne(s, n) == SubSeq(s, n + 2, Len(s))

\* (mutant of Rest: the batch is written back to todo with the rest)
RestKeepsBatch(s, n) == s

Rest(s, n) == SubSeq(s, (IF n < Len(s) THEN n ELSE Len(s)) + 1, Len(s))

\* (mutant of Retain: the predicate is inverted)
RetainOnly(s, item) == SelectSeq(s, LAMBDA x : x = item)

\* (mutant of Retain: the list is left as it is)
RetainAll(s, item) == s

\* Vec::retain(|x| *x != item)
Retain(s, item) == SelectSeq(s, LAMBDA x : x # item)

Range(s) == {s[i] : i \in DOMAIN s}

SeqsUpTo(S, n) == UNION {[1..k -> S] : k \in 0..n}

\* a file of the work-list directory: absent, or its lines
NoFile == [ex |-> FALSE, ln |-> <<>>]
File(ls) == [ex |-> TRUE, ln |-> ls]

\* a std::io::BufWriter: closed, or holding the lines written to it so far
NoWriter == [open |-> FALSE, buf |-> <<>>]
Writer(ls) == [open |-> TRUE, buf |-> ls]

NoItem == <<>>

\* (mutant of HasWorkInProgress: the early return of next_batch is missing)
NeverInProgress(list) == FALSE

\* (mutant of HasWorkInProgress: every call compares the list with the file)
AlwaysInProgress(list) == TRUE

\* next_batch: !self.wip_list.is_empty()
HasWorkInProgress(list) == list # <<>>

\* (mutant of ListsMatch: the two lists are compared as sets)
ListsMatchAsSets(from_file, list) == Range(from_file) = Range(list)

\* (mutant of ListsMatch: the comparison is inverted)
ListsDiffer(from_file, list) == from_file # list

\* next_batch: wip_list_from_file == self.wip_list
ListsMatch(from_file, list) == from_file = list

\* (mutant of Flush: the buffer is discarded)
FlushNothing(f, w) == f

\* the drop of a BufWriter writes its buffer at the end of the file
Flush(f, w) == File(f.ln \o w.buf)

\* (mutant of OpenAppend: completed is opened with truncate)
OpenTruncate(f) == [ex |-> TRUE, ln |-> <<>>]

\* OpenOptions create(true).append(true): the file is created when it is
\* absent and its content is kept
OpenAppend(f) == File(f.ln)

VARIABLES
    todo, wip, completed,      \* the files of work_lists_dir, on disk
    downloads,                 \* keys whose file is in downloads_dir
    db,                        \* the items loaded into the table, in order
    batch_size,                \* cfg.s3.download_batch_size
    entry,                     \* "run" (runner.rs) or "main" (main.rs)
    pc,                        \* position of the process
    wip_list,                  \* WorkLists.wip_list
    items, remaining,          \* locals of next_batch
    wip_writer, completed_writer,  \* the BufWriters alive in the current call
    ret,                       \* the result the current call is returning
    batch, idx,                \* the orchestrator's iteration over the batch
    runs, faults,              \* process starts, failed operations so far
    init0,                     \* history: the items on disk at the first start
    start,                     \* history: the items on disk when this run started
    pre,                       \* history: state at entry of the latest scheduler call
    last,                      \* history: how the latest ended run ended
    first,                     \* history: no next_batch has returned in this run
    marked,                    \* history: items mark_completed returned Ok for, this run
    caller,                    \* history: the calls and edits of a direct caller of WorkLists
    faulted,                   \* history: an operation failed in this run
    s3_keys, bucket,           \* get: the requested keys; the keys the store serves
    task,                      \* get: the position of the download of each key
    file,                      \* get: the state of each key's local file
    chan,                      \* get: the messages in the mpsc channel
    rx,                        \* get: the receive loop: waiting, or get's result
    spawned,                   \* get: the task that drives the downloads
    at_return,                 \* get: the local files as they were when get returned
    parquet_fields,            \* connect: the requested source fields
    parquet_to_db,             \* connect: the alias map, or NoMap
    db_col_to_type,            \* connect: the catalog's columns of the table and their types
    conn,                      \* connect: its result
    pq_type_data,              \* build: (physical, converted) of each column
    db_col_types,              \* build: the destination type of each column
    converters,                \* build: its result
    sql,                       \* build: the latest value a converter returned
    schema,                    \* get_desired_cols: the schema of the file
    desired_fields,            \* get_desired_cols: Parquet.desired_fields
    desired_cols,              \* get_desired_cols: its result
    reader,                    \* the reader of the local file being loaded: open or closed
    loaded                     \* history: the item whose copy was finalized in this iteration

disk == <<todo, wip, completed>>
store == <<downloads, db>>
cfg == <<batch_size, entry, init0>>
mem == <<wip_list, items, remaining, wip_writer, completed_writer, ret, batch, idx>>
hist == <<start, pre, last, first, marked, caller>>
getv == <<s3_keys, bucket, task, file, chan, rx, spawned, at_return>>
connv == <<parquet_fields, parquet_to_db, db_col_to_type, conn>>
convv == <<pq_type_data, db_col_types, converters, sql>>
\* what the scheduler and the loop leave alone
pqv == <<schema, desired_fields, desired_cols>>
loadv == <<reader, loaded>>
\* what every step of the scheduler and the loop leaves alone
others == <<cfg, getv, connv, convv, pqv>>
parts == <<others, loadv>>
vars == <<disk, store, parts, mem, hist, pc, runs, faults, faulted>>

\* (mutant of ItemsOf: only the first batch_size item lines are read)
ItemsOfABatch(f) == IF f.ex THEN Take(FilterLines(f.ln), batch_size) ELSE <<>>

\* the item lines a file holds (an absent file holds none)
ItemsOf(f) == IF f.ex THEN FilterLines(f.ln) ELSE <<>>

Snapshot == [todo |-> ItemsOf(todo), wip |-> ItemsOf(wip),
             completed |-> IF completed.ex THEN completed.ln ELSE <<>>]

NoPre == [item |-> NoItem, todo |-> NoFile, wip |-> NoFile, completed |-> NoFile,
          wip_list |-> <<>>]

NoCall == [calls |-> 0, edits |-> 0, op |-> "none", ret |-> "none",
           wip |-> NoFile, wip_list |-> <<>>]

\* the state when the program starts: the work-list directory as the
\* operator left it (the wip file absent or one of wips), the configuration,
\* and the entry point in entries
StartWith(entries, todos, wips) ==
    /\ todo \in {NoFile} \cup {File(ls) : ls \in todos}
    /\ wip \in {NoFile} \cup {File(ls) : ls \in wips}
    /\ completed \in {NoFile, File(<<OldLine>>)}
    /\ downloads = {}
    /\ db = <<>>
    /\ batch_size \in 0..MaxBatch
    /\ entry \in entries
    /\ pc = "new"
    /\ wip_list = <<>>
    /\ items = <<>>
    /\ remaining = <<>>
    /\ wip_writer = NoWriter
    /\ completed_writer = NoWriter
    /\ ret = "none"
    /\ batch = <<>>
    /\ idx = 0
    /\ runs = 1
    /\ faults = 0
    /\ init0 = Snapshot
    /\ start = Snapshot
    /\ pre = NoPre
    /\ last = [exit |-> "none", item |-> NoItem, clean |-> TRUE]
    /\ first = TRUE
    /\ marked = <<>>
    /\ caller = NoCall
    /\ faulted = FALSE
    /\ reader = "closed"
    /\ loaded = NoItem

Start(entries, wips) == StartWith(entries, SeqsUpTo(Lines, MaxTodo), wips)

\* get has not returned; get returned with the local files f
NoReturn == [some |-> FALSE, file |-> <<>>]
Returned(f) == [some |-> TRUE, file |-> f]

\* no get is running
GetAtRest ==
    /\ s3_keys = <<>>
    /\ bucket = {}
    /\ task = <<>>
    /\ file = <<>>
    /\ chan = <<>>
    /\ rx = "none"
    /\ spawned = "none"
    /\ at_return = NoReturn

\* Db::connect, not called
NoMap == [some |-> FALSE, map |-> <<>>]
NoConn == [ret |-> "none", db_cols |-> <<>>, db_col_types |-> <<>>]

ConnectAtRest ==
    /\ parquet_fields = <<>>
    /\ parquet_to_db = NoMap
    /\ db_col_to_type = <<>>
    /\ conn = NoConn

\* converters::build, not called
NoConverters == [ret |-> "none", fns |-> <<>>]
NoSql == [col |-> 0, field |-> [kind |-> "none"], value |-> [null |-> TRUE]]

BuildAtRest ==
    /\ pq_type_data = <<>>
    /\ db_col_types = <<>>
    /\ converters = NoConverters
    /\ sql = NoSql

\* Parquet::get_desired_cols, not called
Prim(name) == [name |-> name, group |-> FALSE, fields |-> <<>>]
Group(name, fields) == [name |-> name, group |-> TRUE, fields |-> fields]
NoCols == [ret |-> "none", cols |-> <<>>, missing |-> "none"]

ColsAtRest ==
    /\ schema = Group("schema", <<>>)
    /\ desired_fields = <<>>
    /\ desired_cols = NoCols

Init ==
    /\ Start({"run", "main"}, SeqsUpTo(Lines, MaxInitWip))
    /\ GetAtRest /\ ConnectAtRest /\ BuildAtRest /\ ColsAtRest

\* the memory of a process that is not running
MemReset ==
    /\ wip_list' = <<>>
    /\ items' = <<>>
    /\ remaining' = <<>>
    /\ wip_writer' = NoWriter
    /\ completed_writer' = NoWriter
    /\ ret' = "none"
    /\ batch' = <<>>
    /\ idx' = 0

\* the process ends: run returns Err (kind "err", "err_item" when the error
\* came from processing item, "err_mark" when it came from mark_completed),
\* or the process is killed ("crash").  clean: no operation of this run had
\* failed before the step that ends it.
\* how WorkLists::new fails: todo cannot be opened ("err_new"), or the wip
\* file exists and cannot be opened or read ("err_new_wip")
NewErrors == {"err_new", "err_new_wip"}

\* A direct caller of WorkLists (entry "api") keeps the value after a call
\* that returned Err: only the locals of the call are gone.  A failure of
\* WorkLists::new leaves no value to call.
Exit(kind, item) ==
    /\ last' = [exit |-> kind, item |-> item, clean |-> ~faulted]
    /\ IF entry = "api" /\ kind \notin NewErrors
       THEN /\ pc' = "failed"
            /\ items' = <<>>
            /\ remaining' = <<>>
            /\ wip_writer' = NoWriter
            /\ completed_writer' = NoWriter
            /\ ret' = "none"
            /\ UNCHANGED <<wip_list, batch, idx>>
       ELSE /\ pc' = "stopped"
            /\ MemReset

\* an operation of the environment succeeds (ok) or fails; failures are counted
Outcome(ok) ==
    IF ok THEN faults' = faults /\ faulted' = faulted
    ELSE faults < MaxFaults /\ faults' = faults + 1 /\ faulted' = TRUE

\* ------------------------------------------------------- WorkLists::new
\* Opens todo (missing is an error) and loads the wip file into wip_list.
\* The operation that fails is the open of todo or, when there is a wip
\* file, the open or the read of it.
New(ok) ==
    /\ pc = "new"
    /\ Outcome(ok)
    /\ IF ~todo.ex
       THEN ok /\ Exit("err_new", NoItem)
       ELSE IF ~ok
       THEN \E kind \in (IF wip.ex THEN NewErrors ELSE {"err_new"}) : Exit(kind, NoItem)
       ELSE /\ wip_list' = ItemsOf(wip)
            /\ pc' = IF entry = "api" THEN "created" ELSE "next_batch"
            /\ UNCHANGED <<items, remaining, wip_writer, completed_writer, ret,
                           batch, idx, last>>
    /\ UNCHANGED <<disk, store, parts, runs, start, pre, first, marked, caller>>

\* ------------------------------------------------ WorkLists::next_batch
\* Entry of next_batch.  A non-empty wip_list is compared with the wip file
\* and returned as it is; an empty one makes the call read the next
\* batch_size item lines of todo.
NextBatch(ok) ==
    /\ pc = "next_batch"
    /\ Outcome(ok)
    /\ pre' = [item |-> NoItem, todo |-> todo, wip |-> wip, completed |-> completed,
               wip_list |-> wip_list]
    /\ IF HasWorkInProgress(wip_list)
       THEN IF ~ok
            THEN wip.ex /\ Exit("err", NoItem)
            ELSE IF ListsMatch(ItemsOf(wip), wip_list)
            THEN /\ pc' = "loop"
                 /\ UNCHANGED <<mem, last>>
            ELSE Exit("err_inconsistent", NoItem)
       ELSE IF ~todo.ex
            THEN ok /\ Exit("err", NoItem)
            ELSE IF ~ok
            THEN Exit("err", NoItem)
            ELSE /\ items' = Take(FilterLines(todo.ln), batch_size)
                 /\ pc' = "nb_open_wip"
                 /\ UNCHANGED <<wip_list, remaining, wip_writer, completed_writer,
                                ret, batch, idx, last>>
    /\ UNCHANGED <<disk, store, parts, runs, start, first, marked, caller>>

\* wip is opened with create and truncate; the batch is written to a
\* BufWriter, which holds it in memory.
NbOpenWip(ok) ==
    /\ pc = "nb_open_wip"
    /\ Outcome(ok)
    /\ IF ok
       THEN /\ wip' = File(<<>>)
            /\ wip_writer' = Writer(items)
            /\ pc' = "nb_open_todo"
            /\ UNCHANGED <<wip_list, items, remaining, completed_writer, ret,
                           batch, idx, last>>
       ELSE Exit("err", NoItem) /\ UNCHANGED wip
    /\ UNCHANGED <<todo, completed, store, parts, runs, start, pre, first, marked, caller>>

\* The rest of todo is read, then todo is opened with truncate.
NbOpenTodo(ok) ==
    /\ pc = "nb_open_todo"
    /\ Outcome(ok)
    /\ IF ok
       THEN /\ remaining' = Rest(FilterLines(todo.ln), batch_size)
            /\ todo' = File(<<>>)
            /\ pc' = "nb_write_todo"
            /\ UNCHANGED ret
       ELSE /\ ret' = "err"
            /\ pc' = "nb_drop"
            /\ UNCHANGED <<remaining, todo>>
    /\ UNCHANGED <<wip, completed, store, parts, runs, hist,
                   wip_list, items, wip_writer, completed_writer, batch, idx>>

\* The remaining lines are written to todo one by one, unbuffered; then
\* wip_list is set to the batch and the call returns Ok.
NbWriteTodo(ok) ==
    /\ pc = "nb_write_todo"
    /\ Outcome(ok)
    /\ IF remaining # <<>>
       THEN IF ok
            THEN /\ todo' = File(Append(todo.ln, Head(remaining)))
                 /\ remaining' = Tail(remaining)
                 /\ UNCHANGED <<pc, ret, wip_list>>
            ELSE /\ ret' = "err"
                 /\ pc' = "nb_drop"
                 /\ UNCHANGED <<todo, remaining, wip_list>>
       ELSE /\ ok
            /\ wip_list' = items
            /\ ret' = "ok"
            /\ pc' = "nb_drop"
            /\ UNCHANGED <<todo, remaining>>
    /\ UNCHANGED <<wip, completed, store, parts, runs, hist,
                   items, wip_writer, completed_writer, batch, idx>>

\* next_batch returns: wip_writer is dropped, which writes its buffer to the
\* wip file and ignores a failure of that write.
NbDrop(ok) ==
    /\ pc = "nb_drop"
    /\ Outcome(ok)
    /\ (~ok => wip_writer.buf # <<>>)
    /\ wip' = IF ok THEN Flush(wip, wip_writer) ELSE wip
    /\ IF ret = "ok"
       THEN /\ pc' = "loop"
            /\ items' = <<>>
            /\ remaining' = <<>>
            /\ wip_writer' = NoWriter
            /\ ret' = "none"
            /\ UNCHANGED <<wip_list, completed_writer, batch, idx, last>>
       ELSE Exit("err", NoItem)
    /\ UNCHANGED <<todo, completed, store, parts, runs, start, pre, first, marked, caller>>

\* ------------------------------------------------------- the orchestrator
\* The order in which the loop body visits the batch.  run iterates over its
\* clone of wip_list; main iterates over the HashMap returned by get, which
\* holds each key once and yields them in an arbitrary order.
Perms(S) == {p \in [1..Cardinality(S) -> S] : Range(p) = S}

IterationOrders(keys) == IF entry = "run" THEN {keys} ELSE Perms(Range(keys))

\* The head of the loop: the batch is the wip_list next_batch returned, and
\* an empty batch ends the run with Ok.
Loop ==
    /\ pc = "loop"
    /\ first' = FALSE
    /\ IF wip_list = <<>>
       THEN /\ pc' = "done"
            /\ last' = [exit |-> "ok", item |-> NoItem, clean |-> ~faulted]
            /\ UNCHANGED batch
       ELSE /\ pc' = "fetch"
            /\ batch' = wip_list
            /\ UNCHANGED last
    /\ UNCHANGED <<disk, store, parts, runs, faults, faulted, start, pre, marked, caller,
                   wip_list, items, remaining, wip_writer, completed_writer, ret, idx>>

\* s3_download::get: on Ok every key of the batch has its local file; on Err
\* any of them may have been written.
Fetch(ok) ==
    /\ pc = "fetch"
    /\ Outcome(ok)
    /\ IF ok
       THEN /\ downloads' = downloads \cup Range(batch)
            /\ batch' \in IterationOrders(batch)
            /\ idx' = 1
            /\ pc' = "open_reader"
            /\ UNCHANGED <<wip_list, items, remaining, wip_writer, completed_writer,
                           ret, last>>
       ELSE /\ \E S \in SUBSET Range(batch) : downloads' = downloads \cup S
            /\ Exit("err", NoItem)
    /\ UNCHANGED <<disk, db, parts, runs, start, pre, first, marked, caller>>

\* parquet_rows_to_db, file_reader: the local file is opened.  A missing
\* local file fails the open.
OpenReader(ok) ==
    /\ pc = "open_reader"
    /\ Outcome(ok)
    /\ loaded' = NoItem
    /\ IF batch[idx] \in downloads /\ ok
       THEN /\ reader' = "open"
            /\ pc' = "resolve"
            /\ UNCHANGED <<mem, last>>
       ELSE /\ batch[idx] \notin downloads => ok
            /\ Exit("err_item", batch[idx])
            /\ UNCHANGED reader
    /\ UNCHANGED <<disk, store, others, runs, start, pre, first, marked, caller>>

\* (mutant of AfterResolve: the loop goes on to mark_completed)
AfterResolveMark == "mark_completed"

\* what follows get_desired_cols in the block of the reader
AfterResolve == "load"

\* get_desired_cols resolves the columns; on an error the reader is dropped
\* with the block.
Resolve(ok) ==
    /\ pc = "resolve"
    /\ Outcome(ok)
    /\ IF ok
       THEN /\ pc' = AfterResolve
            /\ UNCHANGED <<mem, last, reader>>
       ELSE /\ Exit("err_item", batch[idx])
            /\ reader' = "closed"
    /\ UNCHANGED <<disk, store, others, loaded, runs, start, pre, first, marked, caller>>

\* get_row_iter and write_rows: the rows are streamed into the copy and the
\* copy is finished.  On an error nothing is copied and the reader is dropped
\* with the block.
Load(ok) ==
    /\ pc = "load"
    /\ Outcome(ok)
    /\ IF ok
       THEN /\ db' = Append(db, batch[idx])
            /\ loaded' = batch[idx]
            /\ pc' = "release"
            /\ UNCHANGED <<mem, last, reader>>
       ELSE /\ Exit("err_item", batch[idx])
            /\ reader' = "closed"
            /\ UNCHANGED <<db, loaded>>
    /\ UNCHANGED <<disk, downloads, others, runs, start, pre, first, marked, caller>>

\* The block ends: the reader is dropped and its file handle released;
\* parquet_rows_to_db returns Ok.
CloseReader ==
    /\ pc = "release"
    /\ reader' = "closed"
    /\ pc' = "mark_completed"
    /\ UNCHANGED <<disk, store, others, loaded, mem, hist, runs, faults, faulted>>

\* --------------------------------------------- WorkLists::mark_completed
\* The item is removed from wip_list, completed is opened with create and
\* append, and the item's line is written to a BufWriter.
MarkCompleted(ok) ==
    /\ pc = "mark_completed"
    /\ Outcome(ok)
    /\ pre' = [item |-> batch[idx], todo |-> todo, wip |-> wip, completed |-> completed,
               wip_list |-> wip_list]
    /\ IF ok
       THEN /\ wip_list' = Retain(wip_list, batch[idx])
            /\ completed' = OpenAppend(completed)
            /\ completed_writer' = Writer(<<batch[idx]>>)
            /\ pc' = "mc_open_wip"
            /\ UNCHANGED <<items, remaining, wip_writer, ret, batch, idx, last>>
       ELSE Exit("err_mark", batch[idx]) /\ UNCHANGED completed
    /\ UNCHANGED <<todo, wip, store, parts, runs, start, first, marked, caller>>

\* wip is opened with truncate (it must exist) and the remaining wip_list is
\* written to a second BufWriter.
McOpenWip(ok) ==
    /\ pc = "mc_open_wip"
    /\ Outcome(ok)
    /\ IF wip.ex /\ ok
       THEN /\ wip' = File(<<>>)
            /\ wip_writer' = Writer(wip_list)
            /\ ret' = "ok"
            /\ pc' = "mc_drop_wip"
       ELSE /\ (~wip.ex => ok)
            /\ ret' = "err"
            /\ pc' = "mc_drop_completed"
            /\ UNCHANGED <<wip, wip_writer>>
    /\ UNCHANGED <<todo, completed, store, parts, runs, hist,
                   wip_list, items, remaining, completed_writer, batch, idx>>

\* mark_completed returns: the locals are dropped in reverse order of
\* declaration, wip_writer first.  Its buffer is written to the wip file; a
\* failure of that write is ignored.
McDropWip(ok) ==
    /\ pc = "mc_drop_wip"
    /\ Outcome(ok)
    /\ (~ok => wip_writer.buf # <<>>)
    /\ wip' = IF ok THEN Flush(wip, wip_writer) ELSE wip
    /\ wip_writer' = NoWriter
    /\ pc' = "mc_drop_completed"
    /\ UNCHANGED <<todo, completed, store, parts, runs, hist,
                   wip_list, items, remaining, completed_writer, ret, batch, idx>>

\* completed_writer is dropped last: only now the item's line is appended to
\* the completed file, and a failure of that write is ignored too.
McDropCompleted(ok) ==
    /\ pc = "mc_drop_completed"
    /\ Outcome(ok)
    /\ completed' = IF ok THEN Flush(completed, completed_writer) ELSE completed
    /\ IF ret = "ok"
       THEN /\ pc' = "delete"
            /\ completed_writer' = NoWriter
            /\ ret' = "none"
            /\ marked' = Append(marked, batch[idx])
            /\ UNCHANGED <<wip_list, items, remaining, wip_writer, batch, idx, last>>
       ELSE Exit("err_mark", batch[idx]) /\ UNCHANGED marked
    /\ UNCHANGED <<todo, wip, store, parts, runs, start, pre, first, caller>>

\* s3_download::delete removes the local file; then the loop goes on with
\* the next item of the batch, or with the next batch.
Delete(ok) ==
    /\ pc = "delete"
    /\ Outcome(ok)
    /\ IF batch[idx] \notin downloads
       THEN ok /\ Exit("err", NoItem) /\ UNCHANGED downloads
       ELSE IF ~ok
       THEN Exit("err", NoItem) /\ UNCHANGED downloads
       ELSE /\ downloads' = downloads \ {batch[idx]}
            /\ IF idx < Len(batch)
               THEN idx' = idx + 1 /\ pc' = "open_reader" /\ UNCHANGED batch
               ELSE idx' = 0 /\ pc' = "next_batch" /\ batch' = <<>>
            /\ UNCHANGED <<wip_list, items, remaining, wip_writer, completed_writer,
                           ret, last>>
    /\ UNCHANGED <<disk, db, parts, runs, start, pre, first, marked, caller>>

\* ------------------------------------------------------ crash and restart
\* The process is killed: its memory, the BufWriter buffers included, is gone.
Crash ==
    /\ pc \notin {"done", "stopped"}
    /\ runs < MaxRuns
    /\ Exit("crash", NoItem)
    /\ reader' = "closed"
    /\ UNCHANGED <<disk, store, others, loaded, runs, faults, faulted, start, pre, first, marked,
                   caller>>

\* The program is started again on the directory the stopped run left.
Restart ==
    /\ pc = "stopped"
    /\ runs < MaxRuns
    /\ pc' = "new"
    /\ runs' = runs + 1
    /\ start' = Snapshot
    /\ pre' = NoPre
    /\ first' = TRUE
    /\ marked' = <<>>
    /\ faulted' = FALSE
    /\ UNCHANGED <<disk, store, parts, mem, faults, last, caller>>

\* one step of the running program with the given outcome of its operation
Step(ok) ==
    \/ New(ok)
    \/ NextBatch(ok)
    \/ NbOpenWip(ok)
    \/ NbOpenTodo(ok)
    \/ NbWriteTodo(ok)
    \/ NbDrop(ok)
    \/ Fetch(ok)
    \/ OpenReader(ok)
    \/ Resolve(ok)
    \/ Load(ok)
    \/ MarkCompleted(ok)
    \/ McOpenWip(ok)
    \/ McDropWip(ok)
    \/ McDropCompleted(ok)
    \/ Delete(ok)

Next ==
    \/ \E ok \in BOOLEAN : Step(ok)
    \/ Loop
    \/ CloseReader
    \/ Crash
    \/ Restart

Spec == Init /\ [][Next]_vars

\* ------------------------------------------- a direct caller of WorkLists
\* The scheduler called as its unit tests call it: new once, then next_batch
\* and mark_completed in any order and with any item, the result of a failed
\* call dropped and the value used again; between two calls the wip file
\* may be edited from outside.
InitApi ==
    /\ Start({"api"}, SeqsUpTo(Lines, MaxInitWip) \cup {<<ItemA, ItemB>>})
    /\ GetAtRest /\ ConnectAtRest /\ BuildAtRest /\ ColsAtRest

ReturnedOp ==
    CASE pc = "created" -> "new"
      [] pc = "loop" -> "next_batch"
      [] pc = "delete" -> "mark_completed"
      [] pc = "failed" -> IF last.exit = "err_mark" THEN "mark_completed" ELSE "next_batch"

\* the call has returned and the caller holds its result
ApiReturn ==
    /\ pc \in {"created", "loop", "delete", "failed"}
    /\ caller' = [caller EXCEPT !.op = ReturnedOp,
                                !.ret = IF pc = "failed" THEN "err" ELSE "ok",
                                !.wip = wip, !.wip_list = wip_list]
    /\ pc' = "idle"
    /\ UNCHANGED <<disk, store, parts, mem, runs, faults, faulted,
                   start, pre, last, first, marked>>

ApiNextBatch ==
    /\ pc = "idle"
    /\ caller.calls < MaxCalls
    /\ caller' = [caller EXCEPT !.calls = @ + 1]
    /\ pc' = "next_batch"
    /\ faulted' = FALSE
    /\ UNCHANGED <<disk, store, parts, mem, runs, faults, start, pre, last, first, marked>>

ApiMarkCompleted(item) ==
    /\ pc = "idle"
    /\ caller.calls < MaxCalls
    /\ caller' = [caller EXCEPT !.calls = @ + 1]
    /\ batch' = <<item>>
    /\ idx' = 1
    /\ pc' = "mark_completed"
    /\ faulted' = FALSE
    /\ UNCHANGED <<disk, store, parts, runs, faults, start, pre, last, first, marked,
                   wip_list, items, remaining, wip_writer, completed_writer, ret>>

\* what an editor can make of the file: delete it, append an item line or a
\* comment line, or delete its first line
EditsOf(f) ==
    {NoFile} \cup {File(Append(f.ln, l)) : l \in {ItemB, CommentLine}}
             \cup {File(Tail(f.ln)) : x \in {y \in {f} : y.ln # <<>>}}

ApiEditWip ==
    /\ pc = "idle"
    /\ caller.edits < MaxEdits
    /\ caller' = [caller EXCEPT !.edits = @ + 1]
    /\ \E f \in EditsOf(wip) : f # wip /\ wip' = f
    /\ UNCHANGED <<todo, completed, store, parts, mem, runs, faults, faulted,
                   start, pre, last, first, marked, pc>>

\* the todo file is deleted from outside
ApiDeleteTodo ==
    /\ pc = "idle"
    /\ caller.edits < MaxEdits
    /\ todo.ex
    /\ caller' = [caller EXCEPT !.edits = @ + 1]
    /\ todo' = NoFile
    /\ UNCHANGED <<wip, completed, store, parts, mem, runs, faults, faulted,
                   start, pre, last, first, marked, pc>>

\* a direct caller on a directory whose files hold an item line with
\* whitespace around the item
InitLines ==
    /\ StartWith({"api"}, SeqsUpTo(PaddedLines, MaxTodo), SeqsUpTo(PaddedLines, MaxInitWip))
    /\ GetAtRest /\ ConnectAtRest /\ BuildAtRest /\ ColsAtRest

NextApi ==
    \/ \E ok \in BOOLEAN :
          \/ New(ok)
          \/ NextBatch(ok)
          \/ NbOpenWip(ok)
          \/ NbOpenTodo(ok)
          \/ NbWriteTodo(ok)
          \/ NbDrop(ok)
          \/ MarkCompleted(ok)
          \/ McOpenWip(ok)
          \/ McDropWip(ok)
          \/ McDropCompleted(ok)
    \/ ApiReturn
    \/ ApiNextBatch
    \/ \E item \in {ItemA, ItemB} : ApiMarkCompleted(item)
    \/ ApiEditWip
    \/ ApiDeleteTodo

ApiSpec == InitApi /\ [][NextApi]_vars

LinesSpec == InitLines /\ [][NextApi]_vars

\* A running process whose operations succeed takes its next step.
Progress == Step(TRUE) \/ Loop \/ CloseReader

\* One run of the program, from its start to its exit: no kill, no restart.
NextRun ==
    \/ \E ok \in BOOLEAN : Step(ok)
    \/ Loop
    \/ CloseReader

RunSpec == Init /\ [][NextRun]_vars /\ WF_vars(Progress)

\* ------------------------------------------------------ s3_download::get
\* A key is a tuple of characters: a plain key, a key under a prefix, and a
\* key with a trailing slash.
KeyPlain == <<"k">>
KeyNested == <<"d", "/", "k">>
KeyDir == <<"d", "/">>
Keys == {KeyPlain, KeyNested, KeyDir}

OutputDir == <<"o">>

\* mpsc::channel(1)
ChannelCapacity == 1
\* buffer_unordered(5)
BufferUnordered == 5

EndsWithSlash(k) == k # <<>> /\ k[Len(k)] = "/"

\* Path::parent: what precedes the last slash ("/" for a key directly under
\* the root, nothing for a key without a slash)
Parent(k) ==
    LET slashes == {i \in DOMAIN k : k[i] = "/"}
    IN  IF slashes = {} THEN <<>>
        ELSE LET last_slash == CHOOSE i \in slashes : \A j \in slashes : j <= i
             IN  IF last_slash = 1 THEN <<"/">> ELSE SubSeq(k, 1, last_slash - 1)

\* get_dirpath: an error for a trailing slash; else the directory to create
\* (none when the parent is empty or "/")
get_dirpath(k) ==
    IF EndsWithSlash(k) THEN [err |-> TRUE, dir |-> <<>>]
    ELSE [err |-> FALSE,
          dir |-> IF Parent(k) # <<>> /\ Parent(k) # <<"/">> THEN Parent(k) ELSE <<>>]

LocalPath(k) == OutputDir \o <<"/">> \o k

\* the mapping get returns on Ok: one entry for every distinct key
map_ids_to_downloads == [k \in Range(s3_keys) |-> LocalPath(k)]

\* the scheduler, the loop, connect and build, when get is called on its own
sched == <<disk, store, cfg, mem, hist, pc, runs, connv, convv, pqv, loadv>>

\* the scheduler and the loop, when an operation e is called on its own
SchedulerAtRest(e) ==
    /\ todo = NoFile
    /\ wip = NoFile
    /\ completed = NoFile
    /\ downloads = {}
    /\ db = <<>>
    /\ batch_size = MaxBatch
    /\ entry = e
    /\ pc = e
    /\ wip_list = <<>>
    /\ items = <<>>
    /\ remaining = <<>>
    /\ wip_writer = NoWriter
    /\ completed_writer = NoWriter
    /\ ret = "none"
    /\ batch = <<>>
    /\ idx = 0
    /\ runs = 1
    /\ faults = 0
    /\ init0 = Snapshot
    /\ start = Snapshot
    /\ pre = NoPre
    /\ last = [exit |-> "none", item |-> NoItem, clean |-> TRUE]
    /\ first = TRUE
    /\ marked = <<>>
    /\ caller = NoCall
    /\ faulted = FALSE
    /\ reader = "closed"
    /\ loaded = NoItem

InitGet ==
    /\ SchedulerAtRest("get")
    /\ ConnectAtRest /\ BuildAtRest /\ ColsAtRest
    /\ s3_keys \in SeqsUpTo(Keys, MaxKeys)
    /\ bucket \in SUBSET Range(s3_keys)
    /\ task = [i \in DOMAIN s3_keys |-> "queued"]
    /\ file = [k \in Range(s3_keys) |-> "none"]
    /\ chan = <<>>
    /\ rx = "waiting"
    /\ spawned = "running"
    /\ at_return = NoReturn

\* the downloads buffer_unordered is driving
InFlight == {i \in DOMAIN task : task[i] \in {"requesting", "writing", "send_err", "send_ok"}}

\* An unwrap fails inside the spawned task: the task ends, and the stream,
\* the downloads in flight and every sender are dropped with it.
Panic ==
    /\ spawned' = "panicked"
    /\ task' = [i \in DOMAIN task |-> IF task[i] = "done" THEN "done" ELSE "cancelled"]

\* The stream hands the next key to the closure: get_dirpath(key).unwrap(),
\* create_dir_all(..).unwrap(), and the request is started.
GetPull(ok) ==
    /\ spawned = "running"
    /\ Cardinality(InFlight) < BufferUnordered
    /\ \E i \in DOMAIN task :
         /\ task[i] = "queued"
         /\ \A j \in DOMAIN task : task[j] = "queued" => i <= j
         /\ Outcome(ok)
         /\ IF get_dirpath(s3_keys[i]).err
            THEN ok /\ Panic
            ELSE IF ~ok
            THEN get_dirpath(s3_keys[i]).dir # <<>> /\ Panic
            ELSE task' = [task EXCEPT ![i] = "requesting"] /\ UNCHANGED spawned
    /\ UNCHANGED <<sched, s3_keys, bucket, file, chan, rx, at_return>>

\* The store answers get_object: an error for a key it does not serve, else
\* the body, and File::create(..).unwrap() creates the local file.
GetRespond(i, ok) ==
    /\ spawned = "running"
    /\ task[i] = "requesting"
    /\ Outcome(ok)
    /\ IF s3_keys[i] \notin bucket
       THEN /\ ok
            /\ task' = [task EXCEPT ![i] = "send_err"]
            /\ UNCHANGED <<file, spawned>>
       ELSE IF ok
       THEN /\ file' = [file EXCEPT ![s3_keys[i]] = "partial"]
            /\ task' = [task EXCEPT ![i] = "writing"]
            /\ UNCHANGED spawned
       ELSE Panic /\ UNCHANGED file
    /\ UNCHANGED <<sched, s3_keys, bucket, chan, rx, at_return>>

\* The body is read and written chunk by chunk, each step unwrapped.
\* write_all of tokio::fs::File returns when the chunk has been handed to
\* the blocking pool; the file is never flushed, so the last chunk is still
\* being written when the download goes on to send its message.
GetWrite(i, ok) ==
    /\ spawned = "running"
    /\ task[i] = "writing"
    /\ Outcome(ok)
    /\ IF ok
       THEN /\ file' = [file EXCEPT ![s3_keys[i]] = "inflight"]
            /\ task' = [task EXCEPT ![i] = "send_ok"]
            /\ UNCHANGED spawned
       ELSE Panic /\ UNCHANGED file
    /\ UNCHANGED <<sched, s3_keys, bucket, chan, rx, at_return>>

\* The blocking pool ends the write of the last chunk; no one looks at its
\* result.
GetSettle(k, ok) ==
    /\ file[k] = "inflight"
    /\ Outcome(ok)
    /\ file' = [file EXCEPT ![k] = IF ok THEN "complete" ELSE "partial"]
    /\ UNCHANGED <<sched, s3_keys, bucket, task, chan, rx, spawned, at_return>>

\* let _ = tx.send(..).await: the Err of a failed request, then Ok(()) in
\* every case.  A send waits for room in the channel and fails at once,
\* unnoticed, when the receiver is gone.
GetSend(i) ==
    /\ spawned = "running"
    /\ task[i] \in {"send_err", "send_ok"}
    /\ IF rx = "waiting"
       THEN /\ Len(chan) < ChannelCapacity
            /\ chan' = Append(chan, IF task[i] = "send_err" THEN "err" ELSE "ok")
       ELSE UNCHANGED chan
    /\ task' = [task EXCEPT ![i] = IF task[i] = "send_err" THEN "send_ok" ELSE "done"]
    /\ UNCHANGED <<sched, faults, faulted, s3_keys, bucket, file, rx, spawned, at_return>>

\* Every download is done: the spawned task ends and the last sender, the
\* one the closure owns, is dropped.
GetFinish ==
    /\ spawned = "running"
    /\ \A i \in DOMAIN task : task[i] = "done"
    /\ spawned' = "finished"
    /\ UNCHANGED <<sched, faults, faulted, s3_keys, bucket, task, file, chan, rx, at_return>>

\* (mutant of GetRecv: the error return aborts the spawned task)
GetRecvAborts ==
    /\ rx = "waiting"
    /\ chan # <<>>
    /\ IF Head(chan) = "err"
       THEN /\ rx' = "err" /\ chan' = <<>> /\ at_return' = Returned(file)
            /\ Panic
       ELSE /\ rx' = rx /\ chan' = Tail(chan)
            /\ UNCHANGED <<at_return, task, spawned>>
    /\ UNCHANGED <<sched, faults, faulted, s3_keys, bucket, file>>

\* rx.recv() yields a message: an Err makes get return it, an Ok is skipped.
GetRecv ==
    /\ rx = "waiting"
    /\ chan # <<>>
    /\ IF Head(chan) = "err"
       THEN rx' = "err" /\ chan' = <<>> /\ at_return' = Returned(file)
       ELSE rx' = rx /\ chan' = Tail(chan) /\ UNCHANGED at_return
    /\ UNCHANGED <<sched, faults, faulted, s3_keys, bucket, task, file, spawned>>

\* (mutant of AllSendersDropped: get keeps a sender of its own)
SenderKeptByGet == FALSE

\* tx is moved into the closure and cloned for each download, so the end of
\* the spawned task, which owns the stream, drops the last sender
AllSendersDropped == spawned \in {"finished", "panicked"}

\* rx.recv() yields None, the channel being empty and every sender dropped:
\* get returns Ok(map_ids_to_downloads).
GetRecvNone ==
    /\ rx = "waiting"
    /\ chan = <<>>
    /\ AllSendersDropped
    /\ rx' = "ok"
    /\ at_return' = Returned(file)
    /\ UNCHANGED <<sched, faults, faulted, s3_keys, bucket, task, file, chan, spawned>>

NextGet ==
    \/ \E ok \in BOOLEAN : GetPull(ok)
    \/ \E i \in DOMAIN task, ok \in BOOLEAN : GetRespond(i, ok)
    \/ \E i \in DOMAIN task, ok \in BOOLEAN : GetWrite(i, ok)
    \/ \E k \in DOMAIN file, ok \in BOOLEAN : GetSettle(k, ok)
    \/ \E i \in DOMAIN task : GetSend(i)
    \/ GetFinish
    \/ GetRecv
    \/ GetRecvNone

GetSpec == InitGet /\ [][NextGet]_vars

\* The runtime runs whatever is ready, and the store answers every request:
\* a step of get that can be taken is taken in the end.
GetLiveSpec == InitGet /\ [][NextGet]_vars /\ WF_vars(NextGet)

\* ------------------------------------------------------------ Db::connect
FieldNames == {"f", "g", "h"}
\* a destination column that is not the name of a field
AliasName == "x"
ColumnNames == FieldNames \cup {AliasName}
\* the value None of an entry of the alias map
Unset == "unset"

\* Some(field_aliases)
SomeMap(m) == [some |-> TRUE, map |-> m]

\* the alias maps: none, or entries for some fields, each unset or an alias
AliasMaps == {NoMap} \cup {SomeMap(m) : m \in UNION {[S -> {Unset, AliasName}] : S \in SUBSET FieldNames}}

\* the type the catalog gives each column the table has
ColumnType(c) ==
    CASE c = "f" -> "INT4"
      [] c = "g" -> "TEXT"
      [] c = "h" -> "DATE"
      [] OTHER -> "INT8"

\* the catalogs: the table has some of the columns (none: there is no table)
Catalogs == {[c \in S |-> ColumnType(c)] : S \in SUBSET ColumnNames}

\* (mutant of DbCol: a field the map holds with an unset value is left out)
DbColDropsUnset(field_aliases, f) ==
    IF f \notin DOMAIN field_aliases THEN <<f>>
    ELSE IF field_aliases[f] = Unset THEN <<>>
    ELSE <<field_aliases[f]>>

\* The closure of filter_map for one field: nothing or one column.  A field
\* without an entry keeps its name; with an entry, the alias when it is set
\* and the field's name when it is not.
DbCol(field_aliases, f) ==
    IF f \notin DOMAIN field_aliases THEN <<f>>
    ELSE IF field_aliases[f] = Unset THEN <<f>>
    ELSE <<field_aliases[f]>>

RECURSIVE FilterMapDbCol(_, _)
FilterMapDbCol(field_aliases, fields) ==
    IF fields = <<>> THEN <<>>
    ELSE DbCol(field_aliases, Head(fields)) \o FilterMapDbCol(field_aliases, Tail(fields))

\* db_cols: the requested fields, or what filter_map collects
DbCols ==
    IF ~parquet_to_db.some THEN parquet_fields
    ELSE FilterMapDbCol(parquet_to_db.map, parquet_fields)

ConnErr == [ret |-> "err", db_cols |-> <<>>, db_col_types |-> <<>>]

InitConnect ==
    /\ SchedulerAtRest("connect")
    /\ GetAtRest /\ BuildAtRest /\ ColsAtRest
    /\ parquet_fields \in SeqsUpTo(FieldNames, MaxFields)
    /\ parquet_to_db \in AliasMaps
    /\ db_col_to_type \in Catalogs
    /\ conn = NoConn

\* Db::connect.  What can fail outside the program is the connection, the
\* catalog query and the resolution of a type OID; a table without columns
\* is taken not to exist; a chosen column the table lacks is an error.
Connect(ok) ==
    /\ conn = NoConn
    /\ Outcome(ok)
    /\ conn' =
         IF ~ok \/ DOMAIN db_col_to_type = {} THEN ConnErr
         ELSE IF \E i \in DOMAIN DbCols : DbCols[i] \notin DOMAIN db_col_to_type THEN ConnErr
         ELSE [ret |-> "ok", db_cols |-> DbCols,
               db_col_types |-> [i \in DOMAIN DbCols |-> db_col_to_type[DbCols[i]]]]
    /\ UNCHANGED <<disk, store, cfg, getv, convv, pqv, loadv, mem, hist, pc, runs>>
    /\ UNCHANGED <<parquet_fields, parquet_to_db, db_col_to_type>>

NextConnect == \E ok \in BOOLEAN : Connect(ok)

ConnectSpec == InitConnect /\ [][NextConnect]_vars

\* ------------------------------------------------------- converters::build
\* parquet::basic::Type, ConvertedType and the postgres types, by name
PqTypes == {"BOOLEAN", "INT32", "INT64", "BYTE_ARRAY"}
ConvertedTypes == {"NONE", "UTF8", "ENUM", "JSON", "BSON", "DECIMAL", "DATE",
                   "INT_8", "INT_16", "INT_32", "UINT_8"}
PgTypes == {"BOOL", "INT2", "INT4", "INT8", "VARCHAR", "TEXT", "BPCHAR", "CHAR",
            "DATE", "TIMESTAMP", "TIMESTAMPTZ", "INET", "CIDR", "UNKNOWN",
            "NUMERIC", "FLOAT4", "FLOAT8", "BYTEA"}

\* parquet::record::Field: a kind and, but for Null, a value
Field(kind, v) == [kind |-> kind, v |-> v]
FieldNull == [kind |-> "Null"]
Fields == {FieldNull,
           Field("Bool", TRUE), Field("Byte", -1), Field("Short", 300),
           Field("Int", 70000), Field("Long", 100000), Field("Str", <<"s">>),
           Field("Date", -1), Field("Date", 0), Field("Date", 31),
           Field("Decimal", <<"1", ".", "5">>), Field("Bytes", <<"b">>)}

\* Box<dyn ToSql>: NullVal, or a value of a Rust type
NullVal == [null |-> TRUE]
Boxed(ty, v) == [null |-> FALSE, ty |-> ty, v |-> v]

\* NAIVE_EPOCH + Duration::days(parquet_date), for the days from December
\* 1969 to February 1970
parquet_date_to_naive_date(parquet_date) ==
    IF parquet_date < 0 THEN [y |-> 1969, m |-> 12, d |-> 32 + parquet_date]
    ELSE IF parquet_date < 31 THEN [y |-> 1970, m |-> 1, d |-> parquet_date + 1]
    ELSE [y |-> 1970, m |-> 2, d |-> parquet_date - 30]

DigitChar(n) == <<"0", "1", "2", "3", "4", "5", "6", "7", "8", "9">>[n + 1]
TwoDigits(n) == <<DigitChar(n \div 10), DigitChar(n % 10)>>
FourDigits(n) == TwoDigits(n \div 100) \o TwoDigits(n % 100)

\* chrono_date.format("%Y-%m-%d").to_string()
FormatDate(date) == FourDigits(date.y) \o <<"-">> \o TwoDigits(date.m) \o <<"-">> \o TwoDigits(date.d)

\* the fallback closure of build: the decoded value as it is for the kinds
\* it lists, NULL for Null and for every other kind
PassThrough(f) ==
    CASE f.kind = "Null" -> NullVal
      [] f.kind = "Bool" -> Boxed("bool", f.v)
      [] f.kind = "Byte" -> Boxed("i8", f.v)
      [] f.kind = "Short" -> Boxed("i16", f.v)
      [] f.kind = "Int" -> Boxed("i32", f.v)
      [] f.kind = "Long" -> Boxed("i64", f.v)
      [] f.kind = "Str" -> Boxed("String", f.v)
      [] OTHER -> NullVal

\* The closures the module returns, by name, applied to a field.
Apply(fn, f) ==
    CASE fn = "null" -> NullVal
      [] fn = "decimal_float4" -> NullVal
      [] fn = "str" -> IF f.kind = "Str" THEN Boxed("String", f.v) ELSE NullVal
      [] fn = "int_i32" -> IF f.kind = "Int" THEN Boxed("i32", f.v) ELSE NullVal
      [] fn = "int_i64" -> IF f.kind = "Int" THEN Boxed("i64", f.v) ELSE NullVal
      [] fn = "short_i16" -> IF f.kind = "Short" THEN Boxed("i16", f.v) ELSE NullVal
      [] fn = "short_i32" -> IF f.kind = "Short" THEN Boxed("i32", f.v) ELSE NullVal
      [] fn = "short_i64" -> IF f.kind = "Short" THEN Boxed("i64", f.v) ELSE NullVal
      [] fn = "date_date" ->
            IF f.kind = "Date" THEN Boxed("NaiveDate", parquet_date_to_naive_date(f.v))
            ELSE NullVal
      [] fn = "date_text" ->
            IF f.kind = "Date" THEN Boxed("String", FormatDate(parquet_date_to_naive_date(f.v)))
            ELSE NullVal
      [] fn = "pass" -> PassThrough(f)

\* todo!(): the thread panics
Todo == "panic"

field_is_bytes(db_col_type) == Todo

field_is_decimal(db_col_type) ==
    IF db_col_type = "FLOAT4" THEN "decimal_float4" ELSE Todo

pgtype_accepts_str(pgtype) ==
    pgtype \in {"BPCHAR", "CHAR", "TEXT", "DATE", "TIMESTAMP", "TIMESTAMPTZ",
                "VARCHAR", "UNKNOWN", "INET", "CIDR"}

field_is_str(db_col_type) ==
    IF pgtype_accepts_str(db_col_type) THEN "str" ELSE Todo

field_is_int(db_col_type) ==
    CASE db_col_type = "INT4" -> "int_i32"
      [] db_col_type = "INT8" -> "int_i64"
      [] OTHER -> Todo

field_is_short(db_col_type) ==
    CASE db_col_type = "INT2" -> "short_i16"
      [] db_col_type = "INT4" -> "short_i32"
      [] db_col_type = "INT8" -> "short_i64"
      [] OTHER -> Todo

field_is_date(db_col_type) ==
    CASE db_col_type = "DATE" -> "date_date"
      [] db_col_type \in {"VARCHAR", "TEXT", "BPCHAR"} -> "date_text"
      [] OTHER -> Todo

p_int32(converted, db_col_type) ==
    CASE converted = "DATE" -> field_is_date(db_col_type)
      [] converted = "INT_16" -> field_is_short(db_col_type)
      [] converted \in {"NONE", "INT_32"} -> field_is_int(db_col_type)
      [] OTHER -> "null"

p_byte_array(converted, db_col_type) ==
    CASE converted \in {"UTF8", "ENUM", "JSON"} -> field_is_str(db_col_type)
      [] converted \in {"NONE", "BSON"} -> field_is_bytes(db_col_type)
      [] converted = "DECIMAL" -> field_is_decimal(db_col_type)
      [] OTHER -> "null"

\* the match of build on the physical type
converter_fn(physical, converted, db_col_type) ==
    CASE physical = "INT32" -> p_int32(converted, db_col_type)
      [] physical = "BYTE_ARRAY" -> p_byte_array(converted, db_col_type)
      [] OTHER -> "pass"

InitBuild ==
    /\ SchedulerAtRest("build")
    /\ GetAtRest /\ ConnectAtRest /\ ColsAtRest
    /\ \E n \in 0..MaxCols :
         /\ pq_type_data \in [1..n -> PqTypes \X ConvertedTypes]
         /\ db_col_types \in [1..n -> PgTypes]
    /\ converters = NoConverters
    /\ sql = NoSql

\* build: one converter per column, in order; a todo!() on the way panics
\* the thread that called build.
Build ==
    /\ converters = NoConverters
    /\ LET fns == [i \in DOMAIN pq_type_data |->
                      converter_fn(pq_type_data[i][1], pq_type_data[i][2], db_col_types[i])]
       IN  converters' = IF \E i \in DOMAIN fns : fns[i] = Todo
                         THEN [ret |-> "panic", fns |-> <<>>]
                         ELSE [ret |-> "ok", fns |-> fns]
    /\ UNCHANGED <<disk, store, cfg, getv, connv, pqv, loadv, mem, hist, pc, runs, faults, faulted>>
    /\ UNCHANGED <<pq_type_data, db_col_types, sql>>

\* The loader applies the i-th converter to a field of a row.
Convert(i, f) ==
    /\ converters.ret = "ok"
    /\ i \in DOMAIN converters.fns
    /\ sql' = [col |-> i, field |-> f, value |-> Apply(converters.fns[i], f)]
    /\ UNCHANGED <<disk, store, cfg, getv, connv, pqv, loadv, mem, hist, pc, runs, faults, faulted>>
    /\ UNCHANGED <<pq_type_data, db_col_types, converters>>

NextBuild ==
    \/ Build
    \/ \E i \in 1..MaxCols, f \in Fields : Convert(i, f)

BuildSpec == InitBuild /\ [][NextBuild]_vars

\* ------------------------------------------------ Parquet::get_desired_cols
LeafNames == {"a", "b"}
\* a field name no schema holds
AbsentName == "z"

\* the schemas: a root group whose fields are leaves or groups of leaves
Leaves == {Prim(n) : n \in LeafNames}
InnerGroups == {Group("g", fs) : fs \in SeqsUpTo(Leaves, MaxGroupFields) \ {<<>>}}
Schemas == {Group("schema", fs) : fs \in SeqsUpTo(Leaves \cup InnerGroups, MaxGroupFields)}

\* HashMap::insert: the entry of the name is set, an older one replaced
Insert(field_map, name, col_num) ==
    [n \in DOMAIN field_map \cup {name} |-> IF n = name THEN col_num ELSE field_map[n]]

\* map_fields_to_cols: a primitive node is entered under the col_num it was
\* called with; the fields of a group are visited in order, each with its
\* index in that group as col_num.
RECURSIVE map_fields_to_cols(_, _, _)
RECURSIVE MapGroupFields(_, _, _)
map_fields_to_cols(field_map, node, col_num) ==
    IF node.group THEN MapGroupFields(field_map, node.fields, 1)
    ELSE Insert(field_map, node.name, col_num)

MapGroupFields(field_map, fields, i) ==
    IF i > Len(fields) THEN field_map
    ELSE MapGroupFields(map_fields_to_cols(field_map, fields[i], i - 1), fields, i + 1)

field_map == map_fields_to_cols(<<>>, schema, 0)

InitCols ==
    /\ SchedulerAtRest("get_desired_cols")
    /\ GetAtRest /\ ConnectAtRest /\ BuildAtRest
    /\ schema \in Schemas
    /\ desired_fields \in SeqsUpTo(LeafNames \cup {AbsentName}, MaxDesired)
    /\ desired_cols = NoCols

\* get_desired_cols: the col_num of each desired field, in request order;
\* the first field the map lacks ends the call with an error naming it.
GetDesiredCols ==
    /\ desired_cols = NoCols
    /\ LET lacking == {i \in DOMAIN desired_fields : desired_fields[i] \notin DOMAIN field_map}
       IN  desired_cols' =
             IF lacking # {}
             THEN [ret |-> "err", cols |-> <<>>,
                   missing |-> desired_fields[CHOOSE i \in lacking : \A j \in lacking : i <= j]]
             ELSE [ret |-> "ok", missing |-> "none",
                   cols |-> [i \in DOMAIN desired_fields |-> field_map[desired_fields[i]]]]
    /\ UNCHANGED <<disk, store, cfg, getv, connv, convv, loadv, mem, hist, pc, runs, faults, faulted>>
    /\ UNCHANGED <<schema, desired_fields>>

NextCols == GetDesiredCols

ColsSpec == InitCols /\ [][NextCols]_vars

\* ------------------------------------------------------------ vocabulary
SeqToBag(s) == [x \in Range(s) |-> Cardinality({i \in DOMAIN s : s[i] = x})]

NoRepeats(s) == \A i, j \in DOMAIN s : s[i] = s[j] => i = j

CompletedLines == IF completed.ex THEN completed.ln ELSE <<>>

\* the process is between two calls of the scheduler, none of which failed
BetweenCalls ==
    pc \in {"next_batch", "loop", "fetch", "open_reader", "resolve", "load", "release",
            "mark_completed", "delete"}

\* the items the first start found in wip and todo, in that order
InitItems == init0.wip \o init0.todo

\* the items this run found in wip and todo, in that order
StartItems == start.wip \o start.todo

\* ------------------------------------------------------------------- C1
\* C1: after any sequence of successful next_batch and mark_completed calls,
\* completed plus wip_list plus the item lines left in todo hold, as a
\* multiset, exactly what completed, wip and todo held at the start (a todo
\* with a repeated line included).
C1_MultisetConserved ==
    (runs = 1 /\ faults = 0 /\ BetweenCalls) =>
        SeqToBag(CompletedLines) (+) SeqToBag(wip_list) (+) SeqToBag(ItemsOf(todo))
            = SeqToBag(init0.completed) (+) SeqToBag(InitItems)

\* ------------------------------------------------------------------- C2
InMarkCompleted == pc \in {"mc_open_wip", "mc_drop_wip", "mc_drop_completed"}

\* C2: at every point of mark_completed at which the wip file on disk no
\* longer holds what it held when the call began, the completed file on
\* disk already holds the item.
C2_CompletedBeforeWip ==
    (faults = 0 /\ InMarkCompleted /\ wip # pre.wip) =>
        pre.item \in Range(CompletedLines)

\* ------------------------------------------------------------------- C3
OnDisk == Range(ItemsOf(todo)) \cup Range(ItemsOf(wip)) \cup Range(CompletedLines)

\* C3: whatever the point at which the first run is killed, every item the
\* directory held at the start is still in todo, wip or completed on disk.
C3_NoCrashLosesAnItem ==
    (pc = "stopped" /\ last.exit = "crash" /\ runs = 1 /\ faults = 0) =>
        Range(InitItems) \subseteq OnDisk

\* ------------------------------------------------------------------- C4
Count(s, x) == Cardinality({i \in DOMAIN s : s[i] = x})

\* C4: when, after any crashes and restarts, a run finishes without error,
\* completed holds every item of the original todo and wip exactly once and
\* neither todo nor wip holds an item.
C4_RestartLosesNothing ==
    (pc = "done" /\ faults = 0 /\ batch_size >= 1 /\ NoRepeats(InitItems)) =>
        /\ ItemsOf(todo) = <<>>
        /\ ItemsOf(wip) = <<>>
        /\ \A x \in Range(InitItems) : Count(CompletedLines, x) = 1

\* ------------------------------------------------------------------- C5
\* C5: an item whose line was in completed when a run started is not
\* fetched and loaded by that run (pc = "mark_completed" is the point right
\* after the load of batch[idx]).
C5_CompletedNotLoadedAgain ==
    (pc = "mark_completed" /\ NoRepeats(InitItems)) =>
        batch[idx] \notin Range(start.completed)

\* ------------------------------------------------------------------- C6
\* C6: when run returns the error of an item's open, column resolution,
\* conversion or load (the first operation of the run to fail), the items it
\* marked completed before are in completed, and the failing item is in the
\* wip file and not in completed.
C6_AbortKeepsBookkeeping ==
    (pc = "stopped" /\ last.exit = "err_item" /\ last.clean /\ entry = "run") =>
        /\ Range(marked) \subseteq Range(CompletedLines)
        /\ last.item \in Range(ItemsOf(wip))
        /\ last.item \notin Range(CompletedLines)

\* ------------------------------------------------------------------- C7
\* C7: in the run that follows a run aborted on an item, the first
\* next_batch returns the items the wip file held at the start, the failed
\* item first, and todo is as it was at the start.
C7_ResumeFromFailedItem ==
    (pc = "loop" /\ first /\ runs > 1 /\ last.exit = "err_item") =>
        /\ wip_list = start.wip
        /\ wip_list # <<>>
        /\ Head(wip_list) = last.item
        /\ ItemsOf(todo) = start.todo

\* ------------------------------------------------------------------- C8
\* C8: when mark_completed has returned Ok (pc = "delete"), the item's line
\* has been appended to completed on disk and the wip file on disk holds
\* the remaining wip_list.
C8_OkMeansWritten ==
    pc = "delete" =>
        /\ CompletedLines = pre.completed.ln \o <<pre.item>>
        /\ wip = File(wip_list)

\* ------------------------------------------------------------------- C9
\* what an error-free run leaves behind: no item in todo or wip, and every
\* item the run found in wip or todo in completed
RunPostcondition ==
    /\ ItemsOf(todo) = <<>>
    /\ ItemsOf(wip) = <<>>
    /\ Range(StartItems) \subseteq Range(CompletedLines)

\* C9 as stated: a run in which no step fails ends with todo and wip holding
\* no item and completed holding every item the run found in wip or todo.
C9_RunEmptiesTodo == (pc = "done" /\ ~faulted) => RunPostcondition

\* C9 as amended: with batch_size >= 1, a run in which no step fails ends
\* (the loop exits at the first empty batch; a run that does not end Ok has
\* been stopped by a failure or a kill), and it ends with todo and wip
\* holding no item and completed holding every item the run found in wip or
\* todo.
C9_RunTerminatesAndEmptiesTodo ==
    /\ []((pc = "done" /\ ~faulted /\ batch_size >= 1) => RunPostcondition)
    /\ [](pc = "done" => wip_list = <<>>)
    /\ [](pc \in {"fetch", "load", "mark_completed", "delete"} => batch # <<>>)
    /\ <>(pc \in {"done", "stopped"})

\* a run that found MaxTodo items in todo and one in wip has ended without
\* a failure
C9_Witness ==
    /\ pc = "done"
    /\ ~faulted
    /\ batch_size >= 1
    /\ Len(start.todo) = MaxTodo
    /\ start.wip # <<>>
    /\ RunPostcondition

\* ------------------------------------------------------------------ C10
\* C10: an error-free run appends to completed the items it found in wip
\* followed by the items it found in todo, in file order.
C10_CompletedInSchedulerOrder ==
    (pc = "done" /\ ~faulted /\ batch_size >= 1 /\ NoRepeats(StartItems)) =>
        CompletedLines = start.completed \o StartItems

\* ---------------------------------------------- the scheduler's contract
\* next_batch has just returned to its caller (pre is the state it was
\* called in)
NextBatchReturned ==
    \/ pc = "loop"
    \/ pc = "failed" /\ last.exit \in {"err", "err_inconsistent"}

FilesAsAtEntry == todo = pre.todo /\ wip = pre.wip /\ completed = pre.completed

\* the call before the one that has just returned was a next_batch, too
SecondOfTwoNextBatch == NextBatchReturned /\ caller.op = "next_batch"

\* ------------------------------------------------------------------ C11
\* C11: next_batch called with a non-empty wip_list that differs from the
\* item lines of the wip file returns the inconsistent-state error and
\* leaves todo, wip, completed and wip_list as they were.
C11_InconsistentWipRejected ==
    (NextBatchReturned /\ ~faulted /\ pre.wip_list # <<>>
        /\ ItemsOf(pre.wip) # pre.wip_list) =>
        /\ pc = "failed"
        /\ last.exit = "err_inconsistent"
        /\ FilesAsAtEntry
        /\ wip_list = pre.wip_list

\* the list and the file hold the same items, the file more often
C11_Witness ==
    /\ pc = "failed"
    /\ last.exit = "err_inconsistent"
    /\ pre.wip_list # <<>>
    /\ Range(ItemsOf(pre.wip)) = Range(pre.wip_list)
    /\ ItemsOf(todo) # <<>>

\* ------------------------------------------------------------------ C12
\* C12 as stated: when the wip file was changed between two next_batch
\* calls, the second call fails and leaves the three files unchanged.
C12_AnyWipEditRejected ==
    (SecondOfTwoNextBatch /\ faults = 0 /\ pre.wip # caller.wip) =>
        pc = "failed" /\ FilesAsAtEntry

\* C12 as amended: when the wip file was changed between two next_batch
\* calls, wip_list is not empty and the item lines of the changed file
\* differ from it, the second call fails and leaves the three files
\* unchanged.
C12_ItemEditRejected ==
    (SecondOfTwoNextBatch /\ pre.wip # caller.wip /\ pre.wip_list # <<>>
        /\ ItemsOf(pre.wip) # pre.wip_list) =>
        pc = "failed" /\ FilesAsAtEntry

\* the first call returned a non-empty list, written in the wip file, and
\* then an item line was added to the file
C12_Witness ==
    /\ SecondOfTwoNextBatch
    /\ pc = "failed"
    /\ caller.ret = "ok"
    /\ caller.wip = File(pre.wip_list)
    /\ Len(ItemsOf(pre.wip)) > Len(pre.wip_list)
    /\ FilesAsAtEntry

\* ------------------------------------------------------------------ C13
SameAsFirst == pc = "loop" /\ wip_list = caller.wip_list

\* C13 as stated: the second of two next_batch calls succeeds with the list
\* of the first if and only if the wip file was not changed between them.
C13_SameIffFileUnchanged ==
    (SecondOfTwoNextBatch /\ faults = 0 /\ caller.ret = "ok") =>
        (SameAsFirst <=> pre.wip = caller.wip)

\* C13 as amended: when the first call returned a non-empty list and no
\* file operation of the second fails, the second call succeeds with that
\* list if and only if the item lines of the wip file equal it.
C13_SameIffItemLinesEqual ==
    (SecondOfTwoNextBatch /\ ~faulted /\ caller.ret = "ok" /\ caller.wip_list # <<>>) =>
        (SameAsFirst <=> ItemsOf(pre.wip) = caller.wip_list)

\* a comment line was added to the wip file and the second call returned
\* the list of the first
C13_Witness ==
    /\ SecondOfTwoNextBatch
    /\ caller.ret = "ok"
    /\ caller.wip_list # <<>>
    /\ pre.wip # caller.wip
    /\ SameAsFirst

\* ------------------------------------------------------------------ C14
\* C14: next_batch called with a non-empty wip_list that matches the wip
\* file returns Ok with the same list and leaves todo, wip and completed
\* exactly as they were.
C14_MatchingWipReturnedUntouched ==
    (NextBatchReturned /\ ~faulted /\ pre.wip_list # <<>>
        /\ ItemsOf(pre.wip) = pre.wip_list) =>
        /\ pc = "loop"
        /\ wip_list = pre.wip_list
        /\ FilesAsAtEntry

\* the list was loaded by new, todo still holds items
C14_Witness ==
    /\ pc = "loop"
    /\ caller.op = "new"
    /\ pre.wip_list # <<>>
    /\ wip_list = pre.wip_list
    /\ ItemsOf(pre.todo) # <<>>
    /\ batch_size >= 1

\* ------------------------------------------------------------------ C15
Min(a, b) == IF a < b THEN a ELSE b

\* C15: next_batch called with an empty wip_list, no file operation
\* failing, sets wip_list to the first min(batch_size, n) of the n item
\* lines of todo, leaves the wip file holding exactly these lines and todo
\* holding exactly the other item lines, in their order.
C15_CheckoutTakesHeadOfTodo ==
    (pc = "loop" /\ ~faulted /\ pre.wip_list = <<>>) =>
        LET t == ItemsOf(pre.todo)
            k == Min(batch_size, Len(t))
        IN  /\ wip_list = SubSeq(t, 1, k)
            /\ wip = File(wip_list)
            /\ todo = File(SubSeq(t, k + 1, Len(t)))

\* one of two items was checked out of a todo
C15_Witness ==
    /\ pc = "loop"
    /\ ~faulted
    /\ pre.wip_list = <<>>
    /\ Len(ItemsOf(pre.todo)) = 2
    /\ Len(wip_list) = 1
    /\ ItemsOf(todo) = Tail(ItemsOf(pre.todo))

\* ------------------------------------------------------------------ C16
Max(a, b) == IF a > b THEN a ELSE b

\* C16 as stated (for a batch_size of at least 1): once new has returned,
\* wip_list never holds more than batch_size items.
C16_WipListAtMostBatchSize ==
    (pc # "new" /\ batch_size >= 1) => Len(wip_list) <= batch_size

\* C16 as amended: a batch that next_batch checks out of todo holds at most
\* batch_size items, in wip_list and in the wip file; new loads every item
\* line of an existing wip file whatever batch_size is, and wip_list never
\* holds more than the larger of the two.
C16_CheckoutAtMostBatchSize ==
    /\ Len(wip_list) <= Max(batch_size, Len(start.wip))
    /\ (pc = "loop" /\ pre.wip_list = <<>>) =>
           Len(wip_list) <= batch_size /\ Len(ItemsOf(wip)) <= batch_size

\* a full batch was checked out of a todo that held more
C16_Witness ==
    /\ pc = "loop"
    /\ pre.wip_list = <<>>
    /\ batch_size >= 1
    /\ Len(wip_list) = batch_size
    /\ ItemsOf(wip) = wip_list
    /\ ItemsOf(todo) # <<>>

\* ------------------------------------------------------------------ C17
IsPrefix(s, t) == Len(s) <= Len(t) /\ SubSeq(t, 1, Len(s)) = s

\* C17: no step of next_batch or mark_completed, of a call that succeeds or
\* of one that fails, removes or changes a line of completed: what the file
\* held before the step is a prefix of what it holds after.
C17_CompletedAppendOnly ==
    [][IsPrefix(completed.ln, completed'.ln) /\ (completed.ex => completed'.ex)]_vars

\* a mark_completed that returned Err has appended its item after the line
\* the file held
C17_Witness ==
    /\ pc = "failed"
    /\ last.exit = "err_mark"
    /\ pre.completed.ln # <<>>
    /\ CompletedLines = pre.completed.ln \o <<pre.item>>

\* ------------------------------------------------------------------ C18
\* C18: after new and after every next_batch and mark_completed that
\* returned Ok and in which no file operation failed, the item lines of the
\* wip file are wip_list, in the same order (an absent file holds none).
C18_WipFileIsWipList ==
    (pc \in {"created", "loop", "delete"} /\ ~faulted) => ItemsOf(wip) = wip_list

\* mark_completed has rewritten the wip file from a list of two
C18_Witness ==
    /\ pc = "delete"
    /\ ~faulted
    /\ Len(pre.wip_list) = 2
    /\ Len(wip_list) = 1
    /\ wip = File(wip_list)

\* ------------------------------------------------------------------ C19
\* the list without the lines equal to x
Without(s, x) == SelectSeq(s, LAMBDA y : y # x)

\* C19: mark_completed(x) with x in wip_list, no file operation failing,
\* leaves wip_list without x and the other items in their order, completed
\* (created when absent) holding its former lines and then one line x, and
\* the wip file holding exactly the new wip_list.
C19_MarkCompletedMovesItem ==
    (pc = "delete" /\ ~faulted /\ pre.item \in Range(pre.wip_list)) =>
        /\ pre.item \notin Range(wip_list)
        /\ wip_list = Without(pre.wip_list, pre.item)
        /\ completed = File(pre.completed.ln \o <<pre.item>>)
        /\ wip = File(wip_list)

\* the second of two items was marked completed and completed was created
C19_Witness ==
    /\ pc = "delete"
    /\ ~faulted
    /\ Len(pre.wip_list) = 2
    /\ pre.item = pre.wip_list[2]
    /\ pre.item # pre.wip_list[1]
    /\ ~pre.completed.ex
    /\ completed.ex

\* ------------------------------------------------------------------ C20
\* C20: when the directory started with no item twice in wip and todo, then
\* after new and after every next_batch and mark_completed that returned
\* Ok no item of the wip file is in the todo file.
C20_WipDisjointFromTodo ==
    (pc \in {"next_batch", "loop", "delete"} /\ NoRepeats(InitItems)) =>
        Range(ItemsOf(wip)) \cap Range(ItemsOf(todo)) = {}

\* ------------------------------------------------------------------ C21
\* the directory started with every item once, in one of the three files
StartedClean ==
    NoRepeats(InitItems) /\ Range(init0.completed) \cap Range(InitItems) = {}

\* C21: with every item once in the directory at the start, an item only
\* moves forward.  Between the calls todo holds only items it held at the
\* start, and none that is in wip_list; a batch that next_batch checks out
\* of todo holds no item that is in completed; and when the processing of
\* an item fails the item is in the wip file.
C21_ItemsOnlyMoveForward ==
    StartedClean =>
        /\ (BetweenCalls /\ faults = 0) =>
               /\ Range(ItemsOf(todo)) \subseteq Range(init0.todo)
               /\ Range(ItemsOf(todo)) \cap Range(wip_list) = {}
        /\ (pc = "loop" /\ pre.wip_list = <<>>) =>
               Range(wip_list) \cap Range(CompletedLines) = {}
        /\ (pc = "stopped" /\ last.exit = "err_item" /\ last.clean) =>
               last.item \in Range(ItemsOf(wip))

\* ------------------------------------------------------------------ C22
\* C22: every appearance of an item in todo is a work item of its own.  A
\* first run in which no operation fails does not abort on an item, and
\* when it ends completed has gained, for every item, as many lines as wip
\* and todo held of it at the start.
C22_EachAppearanceCompleted ==
    (runs = 1 /\ faults = 0 /\ batch_size >= 1) =>
        /\ ~(pc = "stopped" /\ last.exit = "err_item")
        /\ pc = "done" =>
               \A x \in Range(InitItems) :
                   Count(CompletedLines, x) = Count(init0.completed, x) + Count(InitItems, x)

\* ------------------------------------------------------------------ C23
NewFailed == pc = "stopped" /\ last.exit \in NewErrors

\* what new and a next_batch on a missing todo do, whatever made new fail
NewAndMissingTodo ==
    /\ (NewFailed /\ ~faulted) => ~todo.ex
    /\ pc = "created" =>
           /\ todo.ex
           /\ wip_list = IF wip.ex THEN SelectSeq(wip.ln, IsItemLine) ELSE <<>>
    /\ (NextBatchReturned /\ pre.wip_list = <<>> /\ ~pre.todo.ex) =>
           pc = "failed" /\ FilesAsAtEntry

\* C23 as stated: new fails exactly when todo cannot be opened (so a
\* failure of new is never about the wip file); on success wip_list holds
\* the item lines of the wip file, or nothing when there is none; and
\* next_batch with an empty wip_list on a missing todo fails and leaves wip
\* as it was.
C23_NewFailsOnlyOnTodo ==
    /\ NewFailed => last.exit = "err_new"
    /\ NewAndMissingTodo

\* C23 as amended: new fails when todo cannot be opened and when an
\* existing wip file cannot be opened or read, and only then; the rest as
\* stated.
C23_NewFailsOnTodoOrWip ==
    /\ NewFailed => (last.exit = "err_new" \/ (wip.ex /\ faulted))
    /\ NewAndMissingTodo

\* new succeeded on an empty todo and a wip file without item lines; todo
\* was deleted, and next_batch failed and left the wip file as it was
C23_Witness ==
    /\ pc = "failed"
    /\ init0.todo = <<>>
    /\ pre.wip_list = <<>>
    /\ ~pre.todo.ex
    /\ wip.ex
    /\ wip.ln # <<>>
    /\ wip = pre.wip

\* ------------------------------------------------------------------ C24
\* C24: when get has returned Ok, the local file of every requested key is
\* completely written, no download is queued, in progress or cancelled, and
\* the mapping holds <output_dir>/<key> for every requested key.
C24_OkMeansAllDownloaded ==
    rx = "ok" =>
        /\ \A k \in Range(s3_keys) : file[k] = "complete"
        /\ \A i \in DOMAIN task : task[i] = "done"
        /\ DOMAIN map_ids_to_downloads = Range(s3_keys)
        /\ \A k \in Range(s3_keys) : map_ids_to_downloads[k] = OutputDir \o <<"/">> \o k

\* ------------------------------------------------------------------ C25
\* C25: when the store does not serve one of the requested keys, get does
\* not return Ok.
C25_FailedRequestIsReported ==
    (rx # "waiting" /\ \E k \in Range(s3_keys) : k \notin bucket /\ ~EndsWithSlash(k)) =>
        rx = "err"

\* ------------------------------------------------------------------ C26
\* C26: get called with a key that ends in '/' returns an error.
C26_TrailingSlashRejected ==
    (rx # "waiting" /\ \E k \in Range(s3_keys) : EndsWithSlash(k)) => rx = "err"

\* ------------------------------------------------------------------ C27
\* The destination column the alias rules give a field: the field's name
\* without a map, the alias when the map gives the field a concrete name,
\* the field's name when the entry is unset or missing.
ColumnFor(f) ==
    IF parquet_to_db = NoMap THEN f
    ELSE IF f \in DOMAIN parquet_to_db.map /\ parquet_to_db.map[f] # Unset
         THEN parquet_to_db.map[f]
    ELSE f

\* C27: when connect succeeds, db_cols and db_col_types have one entry per
\* requested field, in request order: the column the alias rules give the
\* field, and the catalog's type of that column.  When a resulting column
\* is not in the table, connect fails.
C27_ColumnsFollowAliasRules ==
    /\ conn.ret = "ok" =>
         /\ Len(conn.db_cols) = Len(parquet_fields)
         /\ Len(conn.db_col_types) = Len(parquet_fields)
         /\ \A i \in DOMAIN parquet_fields :
              /\ conn.db_cols[i] = ColumnFor(parquet_fields[i])
              /\ conn.db_col_types[i] = db_col_to_type[ColumnFor(parquet_fields[i])]
    /\ (conn.ret # "none" /\ \E i \in DOMAIN parquet_fields :
                                ColumnFor(parquet_fields[i]) \notin DOMAIN db_col_to_type)
         => conn.ret = "err"

\* connect has succeeded for three fields: one with an alias, one whose
\* entry is unset, one without an entry
C27_Witness ==
    /\ conn.ret = "ok"
    /\ parquet_fields = <<"f", "g", "h">>
    /\ parquet_to_db = SomeMap([c \in {"f", "g"} |-> IF c = "f" THEN AliasName ELSE Unset])
    /\ conn.db_cols = <<AliasName, "g", "h">>

\* ------------------------------------------------------------------ C28
\* The truth table of the converter registry: the field kind a (physical,
\* converted) pair yields, and the destination types listed for the pair.
\* A pair the table does not list has no kind and no destination type.
TableKind(physical, converted) ==
    CASE physical = "BOOLEAN" /\ converted = "NONE" -> "Bool"
      [] physical = "INT32" /\ converted = "INT_8" -> "Byte"
      [] physical = "INT32" /\ converted = "INT_16" -> "Short"
      [] physical = "INT32" /\ converted = "DATE" -> "Date"
      [] physical = "INT32" /\ converted \in {"INT_32", "NONE"} -> "Int"
      [] physical = "BYTE_ARRAY" /\ converted \in {"UTF8", "ENUM", "JSON"} -> "Str"
      [] physical = "BYTE_ARRAY" /\ converted \in {"NONE", "BSON"} -> "Bytes"
      [] physical = "BYTE_ARRAY" /\ converted = "DECIMAL" -> "Decimal"
      [] OTHER -> "none"

TextTypes == {"VARCHAR", "TEXT", "BPCHAR"}

TableAccepts(kind) ==
    CASE kind = "Bool" -> {"BOOL", "INT2"} \cup TextTypes
      [] kind = "Byte" -> {"INT2", "INT4", "INT8"}
      [] kind = "Short" -> {"INT2", "INT4", "INT8"}
      [] kind = "Date" -> {"DATE", "INT4", "INT8"} \cup TextTypes
      [] kind = "Int" -> {"INT4", "INT8"}
      [] kind = "Str" -> TextTypes \cup {"DATE", "TIMESTAMP", "TIMESTAMPTZ", "INET", "CIDR"}
      [] kind = "Bytes" -> {"BYTEA"}
      [] kind = "Decimal" -> {"NUMERIC", "FLOAT4", "FLOAT8"}
      [] OTHER -> {}

\* the kind the table gives column i, and whether its triple is listed
KindOfCol(i) == TableKind(pq_type_data[i][1], pq_type_data[i][2])
Listed(i) == db_col_types[i] \in TableAccepts(KindOfCol(i))

\* C28: when the triple of every column is listed as accepted in the truth
\* table, build does not abort, and the converter of a column maps a
\* non-null value of the column's listed field kind to a non-null value.
C28_ListedTriplesConvert ==
    (\A i \in DOMAIN pq_type_data : Listed(i)) =>
        /\ converters.ret # "panic"
        /\ (sql.col # 0 /\ sql.field.kind = KindOfCol(sql.col)) => ~sql.value.null

\* ------------------------------------------------------------------ C29
\* the decoded value, unchanged
Copied(f, value) == IF f.kind = "Null" THEN value.null ELSE ~value.null /\ value.v = f.v

\* C29: for a column whose triple matches no rule of the truth table, build
\* does not abort, and the converter it installs (build has no error
\* result) passes the decoded value through unchanged.
C29_UnlistedTriplesPassThrough ==
    (\E i \in DOMAIN pq_type_data : ~Listed(i)) =>
        /\ converters.ret # "panic"
        /\ (sql.col # 0 /\ ~Listed(sql.col)) => Copied(sql.field, sql.value)

\* ------------------------------------------------------------------ C30
\* C30: the converter of a column maps a null field, and a field of another
\* kind than the one the truth table gives the column, to NULL, whatever
\* the destination type.
C30_NullAndOtherKindsToNull ==
    (/\ sql.col # 0
     /\ \/ sql.field.kind = "Null"
        \/ KindOfCol(sql.col) # "none" /\ sql.field.kind # KindOfCol(sql.col))
        => sql.value.null

\* ------------------------------------------------------------------ C31
\* the names of the leaves of a schema, in depth-first order
RECURSIVE LeavesOf(_)
RECURSIVE LeavesOfFields(_)
LeavesOf(node) == IF node.group THEN LeavesOfFields(node.fields) ELSE <<node.name>>
LeavesOfFields(fields) ==
    IF fields = <<>> THEN <<>> ELSE LeavesOf(Head(fields)) \o LeavesOfFields(Tail(fields))

\* the position 0,1,2,... of the leaf of that name (the schema holds one)
Ordinal(name) == (CHOOSE i \in DOMAIN LeavesOf(schema) : LeavesOf(schema)[i] = name) - 1

\* C31: for a schema whose leaves have distinct names, get_desired_cols
\* gives each requested field the position of its leaf in the depth-first
\* enumeration of the leaves, and a requested name the schema lacks makes
\* it return an error naming that field.
C31_ColsAreLeafOrdinals ==
    (NoRepeats(LeavesOf(schema)) /\ desired_cols.ret # "none") =>
        IF \A i \in DOMAIN desired_fields : desired_fields[i] \in Range(LeavesOf(schema))
        THEN /\ desired_cols.ret = "ok"
             /\ Len(desired_cols.cols) = Len(desired_fields)
             /\ \A i \in DOMAIN desired_fields : desired_cols.cols[i] = Ordinal(desired_fields[i])
        ELSE /\ desired_cols.ret = "err"
             /\ desired_cols.missing \in Range(desired_fields) \ Range(LeavesOf(schema))

\* ------------------------------------------------------------------ C32
\* the positions of the loop inside mark_completed, and after it
MarkingOrMarked == pc \in {"mark_completed", "mc_open_wip", "mc_drop_wip", "mc_drop_completed", "delete"}

\* C32: for each item the loop opens the reader, resolves the columns,
\* streams the rows and finishes the copy, releases the reader, marks the
\* item completed and deletes the local file, in this order: the columns
\* are resolved and the rows copied with the reader open; mark_completed is
\* entered, and the item recorded as marked, only with the reader released
\* and the copy of this very item finished; a local file is deleted only
\* when it is the file of the item marked last, with the reader released.
C32_LoadThenMarkThenDelete ==
    /\ [](pc \in {"resolve", "load", "release"} => reader = "open")
    /\ [](pc = "release" => loaded = batch[idx])
    /\ [](MarkingOrMarked => (reader = "closed" /\ loaded = batch[idx]))
    /\ [][/\ (pc = "resolve" /\ pc' \notin {"resolve", "stopped"}) => pc' = "load"
          /\ db' # db => (pc = "load" /\ reader = "open" /\ db' = Append(db, batch[idx]))
          /\ (marked' # marked /\ marked' # <<>>) =>
                 (marked' = Append(marked, loaded) /\ reader = "closed" /\ loaded # NoItem)
          /\ downloads' # downloads =>
                 \/ pc = "fetch" /\ downloads \subseteq downloads'
                 \/ /\ pc = "delete" /\ reader = "closed"
                    /\ marked # <<>> /\ marked[Len(marked)] = loaded
                    /\ downloads' = downloads \ {loaded}]_vars

\* an item has been loaded, marked completed and its local file deleted, and
\* the next item of the batch is about to be opened
C32_Witness ==
    /\ pc = "open_reader"
    /\ idx = 2
    /\ reader = "closed"
    /\ marked = <<batch[1]>>
    /\ loaded = batch[1]
    /\ batch[1] \in Range(db)
    /\ batch[1] \notin downloads
    /\ batch[1] \in Range(CompletedLines)

\* ------------------------------------------------------------------ C33
\* a line that is blank, or whose first non-whitespace character is '#'
Skipped(l) ==
    \/ \A i \in DOMAIN l : l[i] = " "
    \/ \E i \in DOMAIN l : l[i] = "#" /\ \A j \in 1..(i - 1) : l[j] = " "

NotSkipped(l) == ~Skipped(l)

\* the lines of a file that are not skipped, as they stand in the file
KeptLines(f) == IF f.ex THEN SelectSeq(f.ln, NotSkipped) ELSE <<>>

\* C33: new loads into wip_list the lines of wip that are neither blank nor
\* comments, as they stand in the file.  A next_batch that checks out of
\* todo (no file operation failing) takes the first batch_size such lines
\* of todo, skipped lines not counted, writes exactly these lines to wip and
\* exactly the other such lines to todo: no blank or comment line is left in
\* either file and every item line is written as it was read.
C33_SkippedLinesDropped ==
    /\ (pc = "created" /\ ~faulted) => wip_list = KeptLines(wip)
    /\ (pc = "loop" /\ ~faulted /\ pre.wip_list = <<>>) =>
          LET kept == KeptLines(pre.todo)
              n == Min(batch_size, Len(kept))
          IN  /\ wip_list = SubSeq(kept, 1, n)
              /\ wip = File(SubSeq(kept, 1, n))
              /\ todo = File(SubSeq(kept, n + 1, Len(kept)))
              /\ \A l \in Range(wip.ln) \cup Range(todo.ln) : ~Skipped(l)

\* a batch of one was checked out of a todo file holding a comment line and
\* then the padded item line: the comment is gone, the item line is in wip
\* with its whitespace
C33_Witness ==
    /\ pc = "loop"
    /\ ~faulted
    /\ batch_size = 1
    /\ pre.wip_list = <<>>
    /\ pre.todo = File(<<CommentLine, ItemPadded>>)
    /\ wip = File(<<ItemPadded>>)
    /\ todo = File(<<>>)

\* ------------------------------------------------------------------ C34
\* the positions of next_batch while it checks a batch out of todo
CheckingOut == pc \in {"nb_open_todo", "nb_open_wip", "nb_write_todo", "nb_drop"}

\* C34: within one run, when next_batch is called again after it has
\* returned once, wip_list is empty and an item has been marked completed;
\* a batch is checked out of todo only by a call made with an empty
\* wip_list; and a call made with a non-empty wip_list, the only one that
\* compares the wip file with the list, is the first of its run.
C34_LaterCallsFindListEmpty ==
    /\ (pc = "next_batch" /\ ~first) => (wip_list = <<>> /\ marked # <<>>)
    /\ CheckingOut => pre.wip_list = <<>>
    /\ (pc = "next_batch" /\ wip_list # <<>>) => first

\* the loop is about to call next_batch a second time, with items left in
\* todo
C34_Witness ==
    /\ pc = "next_batch"
    /\ ~first
    /\ wip_list = <<>>
    /\ marked # <<>>
    /\ ItemsOf(todo) # <<>>

\* ------------------------------------------------------------------ C35
\* mark_completed has returned, Ok or Err
MarkCompletedReturned == pc = "delete" \/ (pc = "failed" /\ last.exit = "err_mark")

\* the lines of completed, and then the marked item
CompletedWith(item) == File((IF pre.completed.ex THEN pre.completed.ln ELSE <<>>) \o <<item>>)

\* C35 as stated: mark_completed called with an item that is not in
\* wip_list, no file operation failing, appends the item to completed,
\* rewrites wip from the unchanged list and returns Ok.
C35_AbsentItemMarkedOk ==
    (MarkCompletedReturned /\ ~faulted /\ pre.item \notin Range(pre.wip_list)) =>
        /\ pc = "delete"
        /\ wip_list = pre.wip_list
        /\ completed = CompletedWith(pre.item)
        /\ wip = File(pre.wip_list)

\* C35 as amended: such a call appends the item to completed and leaves
\* wip_list unchanged in every case; when the wip file exists it rewrites
\* wip from the list and returns Ok, and when there is no wip file it
\* returns an error and creates none.
C35_AbsentItemMarkedWhenWipExists ==
    (MarkCompletedReturned /\ ~faulted /\ pre.item \notin Range(pre.wip_list)) =>
        /\ wip_list = pre.wip_list
        /\ completed = CompletedWith(pre.item)
        /\ IF pre.wip.ex
           THEN pc = "delete" /\ wip = File(pre.wip_list)
           ELSE pc = "failed" /\ wip = NoFile

\* an item that is not in the list of one other item was marked completed:
\* Ok, completed holds it, the wip file holds the list
C35_Witness ==
    /\ pc = "delete"
    /\ ~faulted
    /\ Len(pre.wip_list) = 1
    /\ pre.item \notin Range(pre.wip_list)
    /\ wip_list = pre.wip_list
    /\ pre.item \in Range(completed.ln)
    /\ wip = File(wip_list)

\* ------------------------------------------------------------------ C36
\* next_batch was called with an empty wip_list while the wip file held
\* item lines
EmptyListOverStaleWip ==
    /\ NextBatchReturned
    /\ pre.wip_list = <<>>
    /\ pre.wip.ex
    /\ ItemsOf(pre.wip) # <<>>

\* C36: next_batch with an empty wip_list never compares the list with the
\* wip file, so it never reports an inconsistency on this path; when todo
\* exists and no file operation fails it returns Ok, and the item lines the
\* wip file held are gone: the file holds exactly the new batch.
C36_EmptyListOverwritesWip ==
    EmptyListOverStaleWip =>
        /\ ~(pc = "failed" /\ last.exit = "err_inconsistent")
        /\ (~faulted /\ pre.todo.ex) =>
               /\ pc = "loop"
               /\ wip_list = Take(ItemsOf(pre.todo), batch_size)
               /\ wip = File(wip_list)

\* the wip file held an item line that is not in the batch checked out over
\* it
C36_Witness ==
    /\ EmptyListOverStaleWip
    /\ pc = "loop"
    /\ ~faulted
    /\ wip_list # <<>>
    /\ \E l \in Range(ItemsOf(pre.wip)) : l \notin Range(wip.ln)

\* ------------------------------------------------------------------ C37
\* download i has a message to send
Sending(i) == i \in DOMAIN task /\ task[i] \in {"send_err", "send_ok"}

\* C37: get returns in the end; the channel never holds more than its
\* capacity, and a download that has a message to send does not wait
\* forever; get returns Ok only when the spawned task has ended, every
\* sender is dropped and the channel is empty, an error as soon as it has
\* received one.
C37_GetAlwaysReturns ==
    /\ <>(rx # "waiting")
    /\ \A i \in 1..MaxKeys : Sending(i) ~> ~Sending(i)
    /\ [](Len(chan) <= ChannelCapacity)
    /\ [](rx = "ok" => AllSendersDropped /\ chan = <<>>)
    /\ [][rx = "waiting" /\ rx' = "err" => chan # <<>> /\ Head(chan) = "err"]_vars

\* the channel is full and get has not returned, while another download has
\* a message to send
C37_Witness ==
    /\ rx = "waiting"
    /\ Len(chan) = ChannelCapacity
    /\ \E i \in DOMAIN task : Sending(i)

\* ------------------------------------------------------------------ C38
\* download i is under way in the spawned task
Running(i) == spawned = "running" /\ task[i] \in {"queued", "requesting", "writing"}

\* C38: the error return of get stops nothing.  The step in which get
\* returns an error leaves the spawned task and every download as they
\* were, and after it a download that is under way can still take its next
\* step: the request of a served key can be answered, which creates the
\* local file, and a body can be written to its file.
C38_ErrorReturnStopsNothing ==
    /\ [][rx = "waiting" /\ rx' = "err" =>
             task' = task /\ spawned' = spawned /\ file' = file]_vars
    /\ [](rx = "err" =>
            \A i \in DOMAIN task :
                /\ (Running(i) /\ task[i] = "requesting" /\ s3_keys[i] \in bucket) =>
                       ENABLED GetRespond(i, TRUE)
                /\ (Running(i) /\ task[i] = "writing") => ENABLED GetWrite(i, TRUE))

\* get has returned an error, and a local file that did not exist at that
\* moment exists now
C38_Witness ==
    /\ rx = "err"
    /\ at_return.some
    /\ \E k \in DOMAIN file : at_return.file[k] = "none" /\ file[k] # "none"

====
